---- MODULE Spec2Model ----
(***************************************************************************)
(* NeurIPS 2025 explorer: the offline index builder                        *)
(* (backend/scripts/build_index.py), the store loader                      *)
(* (backend/app/database.py) and the in-memory query engine                *)
(* (backend/app/search.py), with the request validation of                 *)
(* backend/app/models.py and the search endpoint of backend/app/main.py.   *)
(*                                                                         *)
(* Text is a sequence of one-character strings.  A JSON value is a record  *)
(* tagged with its kind; a dict (and so a document) is the sequence of its *)
(* <<key, value>> items in insertion order.                                *)
(***************************************************************************)
EXTENDS Integers, Sequences, FiniteSets, TLC

\* ------------------------------------------------------------------------
\* Bounds of the model
\* ------------------------------------------------------------------------
\* Largest number of documents in one corpus file.
MaxDocs == 3
\* Largest page number requested.
MaxPage == 3
\* Largest page size requested.
MaxPageSize == 2

\* ------------------------------------------------------------------------
\* Text
\* ------------------------------------------------------------------------
Digits == <<"0", "1", "2", "3", "4", "5", "6", "7", "8", "9">>

LowerLetters == <<"a", "b", "c", "d", "e", "f", "g", "h", "i", "j", "k", "l", "m",
                  "n", "o", "p", "q", "r", "s", "t", "u", "v", "w", "x", "y", "z">>

UpperLetters == <<"A", "B", "C", "D", "E", "F", "G", "H", "I", "J", "K", "L", "M",
                  "N", "O", "P", "Q", "R", "S", "T", "U", "V", "W", "X", "Y", "Z">>

is_upper(c) == \E i \in 1..26 : UpperLetters[i] = c
is_lower(c) == \E i \in 1..26 : LowerLetters[i] = c
is_digit(c) == \E i \in 1..10 : Digits[i] = c

\* str.lower() on one character.
lower_char(c) ==
  IF is_upper(c) THEN LowerLetters[CHOOSE i \in 1..26 : UpperLetters[i] = c] ELSE c

\* str.lower()
lower(s) == [i \in 1..Len(s) |-> lower_char(s[i])]

\* Code points of the other characters of the model (ASCII).
CodeTable == [c \in {" ", "!", "'", ",", "-", ":", "[", "]", "{", "|", "}",
                       "_", "\"", "\n", "*"} |->
                CASE c = " " -> 32 [] c = "!" -> 33 [] c = "'" -> 39
                  [] c = "," -> 44 [] c = "-" -> 45 [] c = ":" -> 58
                  [] c = "[" -> 91 [] c = "]" -> 93 [] c = "_" -> 95
                  [] c = "\"" -> 34 [] c = "*" -> 42 [] c = "\n" -> 10
                  [] c = "{" -> 123 [] c = "|" -> 124 [] c = "}" -> 125]

\* ord(c)
ord(c) ==
  IF c \in DOMAIN CodeTable THEN CodeTable[c]
  ELSE IF is_upper(c) THEN 64 + (CHOOSE i \in 1..26 : UpperLetters[i] = c)
  ELSE IF is_digit(c) THEN 47 + (CHOOSE i \in 1..10 : Digits[i] = c)
  ELSE 96 + (CHOOSE i \in 1..26 : LowerLetters[i] = c)

\* c.isalnum(): the characters \w matches and the unicode61 tokenizer keeps.
is_word_char(c) == is_upper(c) \/ is_lower(c) \/ is_digit(c)

\* c.isspace()
is_space(c) == c = " "

\* Python's a < b on str: lexicographic by code point.
RECURSIVE str_less(_, _)
str_less(a, b) ==
  IF b = <<>> THEN FALSE
  ELSE IF a = <<>> THEN TRUE
  ELSE IF ord(Head(a)) # ord(Head(b)) THEN ord(Head(a)) < ord(Head(b))
  ELSE str_less(Tail(a), Tail(b))

\* Python's `a in b` on str.
is_substring(a, b) ==
  \E i \in 0..(Len(b) - Len(a)) : SubSeq(b, i + 1, i + Len(a)) = a

\* str.strip()
RECURSIVE lstrip(_)
lstrip(s) == IF s # <<>> /\ is_space(Head(s)) THEN lstrip(Tail(s)) ELSE s

RECURSIVE rstrip(_)
rstrip(s) ==
  IF s # <<>> /\ is_space(s[Len(s)]) THEN rstrip(SubSeq(s, 1, Len(s) - 1)) ELSE s

strip(s) == rstrip(lstrip(s))

\* sep.join(parts)
RECURSIVE join(_, _)
join(sep, parts) ==
  IF parts = <<>> THEN <<>>
  ELSE IF Len(parts) = 1 THEN parts[1]
  ELSE parts[1] \o sep \o join(sep, Tail(parts))

\* re.findall(r"\w+", s): the maximal runs of word characters, left to right.
RECURSIVE word_runs(_, _)
word_runs(s, cur) ==
  IF s = <<>> THEN (IF cur = <<>> THEN <<>> ELSE <<cur>>)
  ELSE IF is_word_char(Head(s)) THEN word_runs(Tail(s), Append(cur, Head(s)))
  ELSE (IF cur = <<>> THEN <<>> ELSE <<cur>>) \o word_runs(Tail(s), <<>>)

\* str(n) for an int.
RECURSIVE int_str(_)
int_str(n) ==
  IF n < 0 THEN <<"-">> \o int_str(0 - n)
  ELSE IF n < 10 THEN <<Digits[n + 1]>>
  ELSE int_str(n \div 10) \o <<Digits[(n % 10) + 1]>>

\* ------------------------------------------------------------------------
\* JSON values and Python dicts
\* ------------------------------------------------------------------------
\* A JSON value: its kind k and the payload of that kind (the other payload
\* fields are left at their defaults).
JVal(k, s, n, b, items, pairs) ==
  [k |-> k, s |-> s, n |-> n, b |-> b, items |-> items, pairs |-> pairs]
\* None / null
Null == JVal("null", <<>>, 0, FALSE, <<>>, <<>>)
\* A str; s is its text.
JStr(s) == JVal("str", s, 0, FALSE, <<>>, <<>>)
\* An int.
JInt(n) == JVal("int", <<>>, n, FALSE, <<>>, <<>>)
\* A bool.
JBool(b) == JVal("bool", <<>>, 0, b, <<>>, <<>>)
\* A list; items is the sequence of its items.
JList(items) == JVal("list", <<>>, 0, FALSE, items, <<>>)
\* A dict; pairs is the sequence of its <<key, value>> items in insertion
\* order.
JDict(pairs) == JVal("dict", <<>>, 0, FALSE, <<>>, pairs)

\* key in d
dict_has(d, key) == \E i \in 1..Len(d) : d[i][1] = key

\* d.get(key): None when the key is absent.
dict_get(d, key) ==
  IF dict_has(d, key) THEN d[CHOOSE i \in 1..Len(d) : d[i][1] = key][2] ELSE Null

\* d[key] = val: in place when the key exists, appended otherwise.
dict_set(d, key, val) ==
  IF dict_has(d, key)
  THEN [i \in 1..Len(d) |-> IF d[i][1] = key THEN <<key, val>> ELSE d[i]]
  ELSE Append(d, <<key, val>>)

\* list(d.keys())
dict_keys(d) == [i \in 1..Len(d) |-> d[i][1]]

\* Text constants.
T_True == <<"T", "r", "u", "e">>
T_False == <<"F", "a", "l", "s", "e">>
T_None == <<"N", "o", "n", "e">>
T_true == <<"t", "r", "u", "e">>
T_false == <<"f", "a", "l", "s", "e">>
T_null == <<"n", "u", "l", "l">>

\* repr(v) and str(v) of Python, mutually defined through containers.
RECURSIVE py_repr(_)
RECURSIVE py_repr_items(_)
RECURSIVE py_repr_pairs(_)
py_repr_items(items) ==
  IF items = <<>> THEN <<>>
  ELSE py_repr(Head(items))
         \o (IF Len(items) > 1 THEN <<",", " ">> ELSE <<>>)
         \o py_repr_items(Tail(items))

py_repr_pairs(items) ==
  IF items = <<>> THEN <<>>
  ELSE <<"'">> \o Head(items)[1] \o <<"'", ":", " ">> \o py_repr(Head(items)[2])
         \o (IF Len(items) > 1 THEN <<",", " ">> ELSE <<>>)
         \o py_repr_pairs(Tail(items))

py_repr(val) ==
  CASE val.k = "null" -> T_None
    [] val.k = "bool" -> (IF val.b THEN T_True ELSE T_False)
    [] val.k = "int" -> int_str(val.n)
    [] val.k = "str" -> <<"'">> \o val.s \o <<"'">>
    [] val.k = "list" -> <<"[">> \o py_repr_items(val.items) \o <<"]">>
    [] val.k = "dict" -> <<"{">> \o py_repr_pairs(val.pairs) \o <<"}">>

\* str(v)
py_str(val) == IF val.k = "str" THEN val.s ELSE py_repr(val)

\* json.dumps(v): the text of a value (", " and ": " separators).
RECURSIVE json_dumps(_)
RECURSIVE json_dumps_items(_)
RECURSIVE json_dumps_pairs(_)
json_dumps_items(items) ==
  IF items = <<>> THEN <<>>
  ELSE json_dumps(Head(items))
         \o (IF Len(items) > 1 THEN <<",", " ">> ELSE <<>>)
         \o json_dumps_items(Tail(items))

json_dumps_pairs(items) ==
  IF items = <<>> THEN <<>>
  ELSE <<"\"">> \o Head(items)[1] \o <<"\"", ":", " ">> \o json_dumps(Head(items)[2])
         \o (IF Len(items) > 1 THEN <<",", " ">> ELSE <<>>)
         \o json_dumps_pairs(Tail(items))

json_dumps(val) ==
  CASE val.k = "null" -> T_null
    [] val.k = "bool" -> (IF val.b THEN T_true ELSE T_false)
    [] val.k = "int" -> int_str(val.n)
    [] val.k = "str" -> <<"\"">> \o val.s \o <<"\"">>
    [] val.k = "list" -> <<"[">> \o json_dumps_items(val.items) \o <<"]">>
    [] val.k = "dict" -> <<"{">> \o json_dumps_pairs(val.pairs) \o <<"}">>

digit_val(c) == (CHOOSE i \in 1..10 : Digits[i] = c) - 1

\* Value of a run of decimal digits.
RECURSIVE digits_val(_, _)
digits_val(s, acc) ==
  IF s = <<>> THEN acc ELSE digits_val(Tail(s), 10 * acc + digit_val(Head(s)))

\* Index of the first character at or after p that is not a digit.
RECURSIVE digits_end(_, _)
digits_end(s, p) ==
  IF p <= Len(s) /\ is_digit(s[p]) THEN digits_end(s, p + 1) ELSE p

\* Index of the first double quote at or after p.
RECURSIVE quote_at(_, _)
quote_at(s, p) == IF s[p] = "\"" THEN p ELSE quote_at(s, p + 1)

\* json.loads, as a recursive-descent parser over the text json.dumps writes:
\* json_parse(s, p) is [val |-> the value starting at s[p], next |-> the index
\* after it].
RECURSIVE json_parse(_, _)
RECURSIVE json_parse_items(_, _, _)
RECURSIVE json_parse_pairs(_, _, _)
json_parse_items(s, p, acc) ==
  IF s[p] = "]" THEN [val |-> JList(acc), next |-> p + 1]
  ELSE IF s[p] = "," THEN json_parse_items(s, p + 2, acc)
  ELSE LET item == json_parse(s, p)
       IN json_parse_items(s, item.next, Append(acc, item.val))

json_parse_pairs(s, p, acc) ==
  IF s[p] = "}" THEN [val |-> JDict(acc), next |-> p + 1]
  ELSE IF s[p] = "," THEN json_parse_pairs(s, p + 2, acc)
  ELSE LET q == quote_at(s, p + 1)
           key == SubSeq(s, p + 1, q - 1)
           item == json_parse(s, q + 3)
       IN json_parse_pairs(s, item.next, dict_set(acc, key, item.val))

json_parse(s, p) ==
  CASE s[p] = "n" -> [val |-> Null, next |-> p + 4]
    [] s[p] = "t" -> [val |-> JBool(TRUE), next |-> p + 4]
    [] s[p] = "f" -> [val |-> JBool(FALSE), next |-> p + 5]
    [] s[p] = "\"" -> LET q == quote_at(s, p + 1)
                      IN [val |-> JStr(SubSeq(s, p + 1, q - 1)), next |-> q + 1]
    [] s[p] = "[" -> json_parse_items(s, p + 1, <<>>)
    [] s[p] = "{" -> json_parse_pairs(s, p + 1, <<>>)
    [] s[p] = "-" -> LET e == digits_end(s, p + 1)
                     IN [val |-> JInt(0 - digits_val(SubSeq(s, p + 1, e - 1), 0)),
                         next |-> e]
    [] OTHER -> LET e == digits_end(s, p)
                IN [val |-> JInt(digits_val(SubSeq(s, p, e - 1), 0)), next |-> e]

json_loads(s) == json_parse(s, 1).val

\* int(value): [ok |-> FALSE] stands for the ValueError/TypeError raised.
py_int(val) ==
  CASE val.k = "int" -> [ok |-> TRUE, n |-> val.n]
    [] val.k = "bool" -> [ok |-> TRUE, n |-> IF val.b THEN 1 ELSE 0]
    [] val.k = "str" ->
         LET t == strip(val.s)
             neg == t # <<>> /\ Head(t) = "-"
             body == IF neg THEN Tail(t) ELSE t
         IN IF body # <<>> /\ \A i \in 1..Len(body) : is_digit(body[i])
            THEN [ok |-> TRUE,
                  n |-> IF neg THEN 0 - digits_val(body, 0) ELSE digits_val(body, 0)]
            ELSE [ok |-> FALSE, n |-> 0]
    [] OTHER -> [ok |-> FALSE, n |-> 0]

\* ------------------------------------------------------------------------
\* Field names
\* ------------------------------------------------------------------------
F_id == <<"i", "d">>
F_name == <<"n", "a", "m", "e">>
F_tags == <<"t", "a", "g", "s">>
F_meta == <<"m", "e", "t", "a">>
F_zz == <<"z", "z">>
F_results == <<"r", "e", "s", "u", "l", "t", "s">>
F_search_blob == <<"s", "e", "a", "r", "c", "h", "_", "b", "l", "o", "b">>
F_raw_json == <<"r", "a", "w", "_", "j", "s", "o", "n">>

\* f"{key}_search"
search_key(key) == key \o <<"_", "s", "e", "a", "r", "c", "h">>

\* sorted(S) for a set of str.
RECURSIVE sorted_strs(_)
sorted_strs(S) ==
  IF S = {} THEN <<>>
  ELSE LET m == CHOOSE x \in S : \A y \in S \ {x} : str_less(x, y)
       IN <<m>> \o sorted_strs(S \ {m})

\* ------------------------------------------------------------------------
\* backend/scripts/build_index.py
\* ------------------------------------------------------------------------
TEXT_LIST_SEPARATOR == <<" ", "|", " ">>

\* read_json applied to the parsed payload: raises unless the top level is a
\* dict with a `results` list.
read_json(payload) ==
  IF payload.k # "dict" \/ ~dict_has(payload.pairs, F_results)
  THEN [raised |-> TRUE, results |-> <<>>]
  ELSE LET results == dict_get(payload.pairs, F_results)
       IN IF results.k # "list"
          THEN [raised |-> TRUE, results |-> <<>>]
          ELSE [raised |-> FALSE, results |-> results.items]

\* [str(item) for item in value if item not in (None, "")]
RECURSIVE list_text_items(_)
list_text_items(items) ==
  IF items = <<>> THEN <<>>
  ELSE (IF Head(items) = Null \/ Head(items) = JStr(<<>>)
        THEN <<>> ELSE <<py_str(Head(items))>>)
         \o list_text_items(Tail(items))

\* The loop of normalise_record over record.items(); acc is
\* [raised, row, text_fragments].
RECURSIVE normalise_loop(_, _)
normalise_loop(items, acc) ==
  IF items = <<>> \/ acc.raised THEN acc
  ELSE
    LET key == Head(items)[1]
        value == Head(items)[2]
        rest == Tail(items)
    IN
      IF key = F_id THEN
        IF value = Null
        THEN normalise_loop(rest, [acc EXCEPT !.row = dict_set(@, key, Null)])
        ELSE IF py_int(value).ok
        THEN normalise_loop(rest,
               [acc EXCEPT !.row = dict_set(@, key, JInt(py_int(value).n))])
        ELSE [acc EXCEPT !.raised = TRUE]
      ELSE IF value = Null THEN
        normalise_loop(rest, [acc EXCEPT !.row = dict_set(@, key, Null)])
      ELSE IF value.k = "list" THEN
        LET joined == join(TEXT_LIST_SEPARATOR, list_text_items(value.items))
            row1 == dict_set(acc.row, key, JStr(json_dumps(value)))
        IN IF joined # <<>>
           THEN normalise_loop(rest,
                  [acc EXCEPT !.row = dict_set(row1, search_key(key), JStr(joined)),
                              !.text_fragments = Append(@, joined)])
           ELSE normalise_loop(rest,
                  [acc EXCEPT !.row = dict_set(row1, search_key(key), JStr(<<>>))])
      ELSE IF value.k = "dict" THEN
        normalise_loop(rest,
          [acc EXCEPT !.row = dict_set(@, key, JStr(json_dumps(value))),
                      !.text_fragments = Append(@, json_dumps(value))])
      ELSE
        normalise_loop(rest,
          [acc EXCEPT !.row = dict_set(@, key, value),
                      !.text_fragments = Append(@, py_str(value))])

\* normalise_record(record): [raised, row]; record is the document's items.
normalise_record(record) ==
  LET acc == normalise_loop(record,
               [raised |-> FALSE, row |-> <<>>, text_fragments |-> <<>>])
      fragments == SelectSeq(acc.text_fragments, LAMBDA f : f # <<>>)
      row1 == dict_set(acc.row, F_search_blob, JStr(join(<<"\n">>, fragments)))
      row2 == dict_set(row1, F_raw_json, JStr(json_dumps(JDict(record))))
  IN [raised |-> acc.raised, row |-> IF acc.raised THEN <<>> ELSE row2]

\* prepare_rows(records): [raised, rows].
RECURSIVE prepare_rows_loop(_, _)
prepare_rows_loop(records, rows) ==
  IF records = <<>> THEN [raised |-> FALSE, rows |-> rows]
  ELSE LET n == normalise_record(Head(records).pairs)
       IN IF n.raised \/ ~dict_has(n.row, F_id) \/ dict_get(n.row, F_id) = Null
          THEN [raised |-> TRUE, rows |-> <<>>]
          ELSE prepare_rows_loop(Tail(records), Append(rows, n.row))

\* prepare_rows without the check that every row has an id.
RECURSIVE prepare_rows_unchecked_loop(_, _)
prepare_rows_unchecked_loop(records, rows) ==
  IF records = <<>> THEN [raised |-> FALSE, rows |-> rows]
  ELSE LET n == normalise_record(Head(records).pairs)
       IN IF n.raised THEN [raised |-> TRUE, rows |-> <<>>]
          ELSE prepare_rows_unchecked_loop(Tail(records), Append(rows, n.row))

prepare_rows_unchecked(records) == prepare_rows_unchecked_loop(records, <<>>)

prepare_rows(records) == prepare_rows_loop(records, <<>>)

\* The store file.  rows are the committed rows of `papers` in rowid order;
\* fts is the committed content of `papers_fts`: one [rowid, tokens] per
\* indexed row, tokens being the unicode61 tokens of its search_blob.
NoFile ==
  [exists |-> FALSE, has_papers |-> FALSE, columns |-> <<>>, rows |-> <<>>,
   has_fts |-> FALSE, fts |-> <<>>]

\* sorted({key for row in rows for key in row.keys() if key != "id"})
columns_of(rows) ==
  sorted_strs(UNION {{rows[i][j][1] : j \in 1..Len(rows[i])} : i \in 1..Len(rows)}
                \ {F_id})

\* create_database, lines 95-97: an existing file is removed.
db_unlink(db) == NoFile

\* create_database, lines 99-107: connect, pragmas, CREATE TABLE papers.
db_create_table(db, columns) ==
  [exists |-> TRUE, has_papers |-> TRUE, columns |-> <<F_id>> \o columns,
   rows |-> <<>>, has_fts |-> FALSE, fts |-> <<>>]

\* {col: row.get(col) for col in ['id', *columns]}
insert_params(db, row) == [i \in 1..Len(db.columns) |->
                             <<db.columns[i], dict_get(row, db.columns[i])>>]

\* One INSERT into papers: the row takes its place in rowid order.
insert_row(rows, r) ==
  LET rid == dict_get(r, F_id).n
      before == SelectSeq(rows, LAMBDA x : dict_get(x, F_id).n < rid)
      after == SelectSeq(rows, LAMBDA x : dict_get(x, F_id).n > rid)
  IN before \o <<r>> \o after

\* create_database, lines 112-113: executemany inside `with conn`.  A repeated
\* id raises IntegrityError and the transaction is rolled back.
RECURSIVE executemany_insert(_, _, _)
executemany_insert(db, rows, pending) ==
  IF pending = <<>> THEN [raised |-> FALSE, db |-> [db EXCEPT !.rows = rows]]
  ELSE LET r == insert_params(db, Head(pending))
       IN IF \E i \in 1..Len(rows) : dict_get(rows[i], F_id) = dict_get(r, F_id)
          THEN [raised |-> TRUE, db |-> db]
          ELSE executemany_insert(db, insert_row(rows, r), Tail(pending))

\* The unicode61 tokens of a text: its alphanumeric runs, case-folded.
unicode61(text) ==
  LET runs == word_runs(text, <<>>)
  IN {lower(runs[i]) : i \in 1..Len(runs)}

\* create_database, lines 115-124: CREATE VIRTUAL TABLE papers_fts.
db_create_fts(db) == [db EXCEPT !.has_fts = TRUE]

\* create_database, lines 125-134: fill papers_fts from papers, create the
\* indexes, commit.
db_populate_fts(db) ==
  [db EXCEPT !.fts = [i \in 1..Len(db.rows) |->
     [rowid |-> dict_get(db.rows[i], F_id).n,
      tokens |-> LET blob == dict_get(db.rows[i], F_search_blob)
                 IN IF blob = Null THEN {} ELSE unicode61(blob.s)]]]

\* create_database(path, rows) run to its end: [raised, db].
create_database(db, rows) ==
  LET unlinked == IF db.exists THEN db_unlink(db) ELSE db
      table == db_create_table(unlinked, columns_of(rows))
      inserted == executemany_insert(table, <<>>, rows)
  IN IF inserted.raised THEN inserted
     ELSE [raised |-> FALSE, db |-> db_populate_fts(db_create_fts(inserted.db))]

\* main() run to its end on a parsed corpus file: [raised, db].
main(payload_, db) ==
  LET records == read_json(payload_)
      prepared == prepare_rows(records.results)
  IN IF records.raised \/ prepared.raised THEN [raised |-> TRUE, db |-> db]
     ELSE create_database(db, prepared.rows)

\* ------------------------------------------------------------------------
\* backend/app/database.py
\* ------------------------------------------------------------------------
\* fetch_all_records(conn): every row in id order, raw_json parsed, id set
\* from the row.
fetch_all_records(db) ==
  [i \in 1..Len(db.rows) |->
     dict_set(json_loads(dict_get(db.rows[i], F_raw_json).s).pairs,
              F_id, dict_get(db.rows[i], F_id))]

\* list_columns(conn)
list_columns(db) == db.columns

\* ------------------------------------------------------------------------
\* backend/app/search.py
\* ------------------------------------------------------------------------
LIST_SEPARATOR == <<" ", "|", " ">>

\* bool(v) for the Optional[str] parameters: None and "" are falsy.
truthy(val) == val # Null /\ val.s # <<>>

\* prepare_fts_query(query): "" or "tok1* AND tok2* ...".
prepare_fts_query(query) ==
  LET tokens == word_runs(lower(query), <<>>)
  IN IF tokens = <<>> THEN <<>>
     ELSE join(<<" ", "A", "N", "D", " ">>,
               [i \in 1..Len(tokens) |-> tokens[i] \o <<"*">>])

is_prefix(a, b) == Len(a) <= Len(b) /\ SubSeq(b, 1, Len(a)) = a

\* papers_fts MATCH fts_query: the rowids, in rowid order, of the rows in
\* which every prefix term of the query starts some token.  The terms are
\* the lower-case words of the query text; AND is the operator between them.
fts_match(db, fts_query) ==
  LET words == word_runs(fts_query, <<>>)
      terms == {words[i] : i \in {j \in 1..Len(words) : words[j] # <<"A", "N", "D">>}}
      hits == SelectSeq(db.fts, LAMBDA e :
                \A t \in terms : \E tok \in e.tokens : is_prefix(t, tok))
  IN [i \in 1..Len(hits) |-> hits[i].rowid]

\* fts_lookup(conn, query)
fts_lookup(db, query) ==
  IF query = <<>> THEN <<>>
  ELSE LET fts_query == prepare_fts_query(query)
       IN IF fts_query = <<>> THEN <<>> ELSE fts_match(db, fts_query)

\* The candidates of one filter value in normalise_filters.
filter_candidates(value) ==
  IF value.k = "str" THEN <<value.s>>
  ELSE IF value.k = "list" THEN [i \in 1..Len(value.items) |-> py_str(value.items[i])]
  ELSE <<py_str(value)>>

\* normalise_filters(raw_filters): a dict from field to its trimmed,
\* non-empty values; raw_filters is None or the items of the filter dict.
RECURSIVE normalise_filters_loop(_, _)
normalise_filters_loop(items, normalised) ==
  IF items = <<>> THEN normalised
  ELSE LET key == Head(items)[1]
           value == Head(items)[2]
       IN IF value = Null THEN normalise_filters_loop(Tail(items), normalised)
          ELSE LET candidates == filter_candidates(value)
                   kept == SelectSeq(candidates, LAMBDA c : strip(c) # <<>>)
               IN normalise_filters_loop(Tail(items),
                    dict_set(normalised, key,
                             [i \in 1..Len(kept) |-> strip(kept[i])]))

normalise_filters(raw_filters) ==
  IF raw_filters = Null \/ raw_filters.pairs = <<>> THEN <<>>
  ELSE normalise_filters_loop(raw_filters.pairs, <<>>)

\* The field_tokens of record_matches_filters for a non-null field value.
field_tokens(field_value) ==
  CASE field_value.k = "bool" -> <<IF field_value.b THEN T_true ELSE T_false>>
    [] field_value.k = "int" -> <<py_str(field_value)>>
    [] field_value.k = "str" -> <<field_value.s>>
    [] field_value.k = "dict" -> <<py_str(field_value)>>
    [] field_value.k = "list" ->
         [i \in 1..Len(field_value.items) |-> py_str(field_value.items[i])]

\* field_matches without the `_search` companion.
field_matches_without_companion(record, field, values) ==
  IF values = <<>> THEN TRUE
  ELSE
    LET field_value == dict_get(record, field)
    IN IF field_value = Null THEN FALSE
       ELSE LET lowered_tokens == [i \in 1..Len(field_tokens(field_value)) |->
                                     lower(field_tokens(field_value)[i])]
            IN \E i \in 1..Len(lowered_tokens) : \E j \in 1..Len(values) :
                 is_substring(lower(values[j]), lowered_tokens[i])

\* field_matches without the skip of a field that has no values.
field_matches_without_skip(record, field, values) ==
  LET direct == dict_get(record, field)
      field_value == IF direct = Null
                     THEN dict_get(record, search_key(field)) ELSE direct
  IN IF field_value = Null THEN FALSE
     ELSE LET lowered_tokens == [i \in 1..Len(field_tokens(field_value)) |->
                                   lower(field_tokens(field_value)[i])]
          IN \E i \in 1..Len(lowered_tokens) : \E j \in 1..Len(values) :
               is_substring(lower(values[j]), lowered_tokens[i])

\* One iteration of the loop of record_matches_filters: TRUE when the field
\* does not reject the record.
field_matches(record, field, values) ==
  IF values = <<>> THEN TRUE
  ELSE
    LET direct == dict_get(record, field)
        field_value == IF direct = Null
                       THEN dict_get(record, search_key(field)) ELSE direct
    IN IF field_value = Null THEN FALSE
       ELSE LET lowered_tokens == [i \in 1..Len(field_tokens(field_value)) |->
                                     lower(field_tokens(field_value)[i])]
            IN \E i \in 1..Len(lowered_tokens) : \E j \in 1..Len(values) :
                 is_substring(lower(values[j]), lowered_tokens[i])

\* record_matches_filters(record, filters)
record_matches_filters(record, filters) ==
  \A i \in 1..Len(filters) : field_matches(record, filters[i][1], filters[i][2])

\* sort_key without the lowercasing.
sort_key_case_sensitive(record, field) ==
  LET value == dict_get(record, field)
  IN IF value.k = "list" /\ value.items # <<>> THEN py_str(value.items[1])
     ELSE IF value = Null THEN <<>>
     ELSE py_str(value)

\* sort_key of sort_records
sort_key(record, field) ==
  LET value == dict_get(record, field)
  IN IF value.k = "list" /\ value.items # <<>> THEN lower(py_str(value.items[1]))
     ELSE IF value = Null THEN <<>>
     ELSE lower(py_str(value))

\* list.sort(key=..., reverse=...) is stable in both directions: an element
\* goes after every element already placed that does not sort after it.
\* Each item carries its key; numeric tells which comparison the keys take.
\* a < b on two sort keys: both int (numeric) or both str.
key_less(a, b, numeric) == IF numeric THEN a < b ELSE str_less(a, b)

\* stable_insert for a descending sort done as an ascending sort followed by
\* a reversal: elements of equal key end in the reverse of their prior order.
RECURSIVE stable_insert_ties_reversed(_, _, _, _)
stable_insert_ties_reversed(sorted, x, numeric, descending) ==
  IF sorted = <<>> THEN <<x>>
  ELSE IF (IF descending THEN ~key_less(x.key, Head(sorted).key, numeric)
                         ELSE key_less(x.key, Head(sorted).key, numeric))
       THEN <<x>> \o sorted
       ELSE <<Head(sorted)>>
              \o stable_insert_ties_reversed(Tail(sorted), x, numeric, descending)

RECURSIVE stable_insert(_, _, _, _)
stable_insert(sorted, x, numeric, descending) ==
  IF sorted = <<>> THEN <<x>>
  ELSE IF (IF descending THEN key_less(Head(sorted).key, x.key, numeric)
                         ELSE key_less(x.key, Head(sorted).key, numeric))
       THEN <<x>> \o sorted
       ELSE <<Head(sorted)>> \o stable_insert(Tail(sorted), x, numeric, descending)

RECURSIVE stable_sort(_, _, _, _)
stable_sort(items, acc, numeric, descending) ==
  IF items = <<>> THEN acc
  ELSE stable_sort(Tail(items), stable_insert(acc, Head(items), numeric, descending),
                   numeric, descending)

\* sort_records(records, field, descending) on a list of references into
\* store.records: the list in its new order.
sort_records(all, refs, field, descending) ==
  LET keyed == [i \in 1..Len(refs) |->
                  [ref |-> refs[i], key |-> sort_key(all[refs[i]], field)]]
      sorted == stable_sort(keyed, <<>>, FALSE, descending)
  IN [i \in 1..Len(sorted) |-> sorted[i].ref]

\* The ids the digest table covers.
ShaIds == {-1, 1, 2, 3, 4, 5, 6, 7}

\* int.from_bytes(sha256(f"{s}:{rid}").digest()[:8], "big"), given by its
\* leading 24 bits (the values SHA-256 has on these texts; they are distinct,
\* so the order of the 64-bit keys is the order of these).
sha256_key(s, rid) ==
  (CASE s = <<"0">> ->
          [i \in ShaIds |-> CASE i = -1 -> 906802 [] i = 1 -> 15668047 [] i = 2 -> 9644201 [] i = 3 -> 7787458 [] i = 4 -> 4780091 [] i = 5 -> 13372423 [] i = 6 -> 10984004 [] i = 7 -> 2879375]
     [] s = <<"x">> ->
          [i \in ShaIds |-> CASE i = -1 -> 14736837 [] i = 1 -> 751744 [] i = 2 -> 1835553 [] i = 3 -> 14990531 [] i = 4 -> 744260 [] i = 5 -> 5719670 [] i = 6 -> 4704690 [] i = 7 -> 10736131]
     [] s = <<>> ->
          [i \in ShaIds |-> CASE i = -1 -> 1546461 [] i = 1 -> 8924685 [] i = 2 -> 5378757 [] i = 3 -> 12095758 [] i = 4 -> 13175185 [] i = 5 -> 5515989 [] i = 6 -> 5381465 [] i = 7 -> 10200066])[rid]

\* rand_key of PaperStore.search for the seed text s.
rand_key(record, s) == sha256_key(s, dict_get(record, F_id).n)

\* sort_random without the "0" that stands for a missing or empty seed.
sort_random_seed_as_given(all, refs, seed) ==
  LET s == seed.s
      keyed == [i \in 1..Len(refs) |->
                  [ref |-> refs[i], key |-> rand_key(all[refs[i]], s)]]
      sorted == stable_sort(keyed, <<>>, TRUE, FALSE)
  IN [i \in 1..Len(sorted) |-> sorted[i].ref]

\* matched_records.sort(key=rand_key)
sort_random(all, refs, seed) ==
  LET s == IF truthy(seed) THEN seed.s ELSE <<"0">>
      keyed == [i \in 1..Len(refs) |->
                  [ref |-> refs[i], key |-> rand_key(all[refs[i]], s)]]
      sorted == stable_sort(keyed, <<>>, TRUE, FALSE)
  IN [i \in 1..Len(sorted) |-> sorted[i].ref]

\* seq[start:end] of Python, for any integers.
py_slice(seq, start, end) ==
  LET n == Len(seq)
      clamp(i) == IF i < 0 THEN (IF i + n < 0 THEN 0 ELSE i + n)
                  ELSE IF i > n THEN n ELSE i
  IN SubSeq(seq, clamp(start) + 1, clamp(end))

\* augment_loop giving a companion to scalar values as well (their str()).
RECURSIVE augment_loop_every_value(_, _)
augment_loop_every_value(items, record) ==
  IF items = <<>> THEN record
  ELSE LET key == Head(items)[1]
           value == Head(items)[2]
       IN IF value = Null THEN augment_loop_every_value(Tail(items), record)
          ELSE IF value.k = "list"
          THEN augment_loop_every_value(Tail(items),
                 dict_set(record, search_key(key),
                          JStr(join(LIST_SEPARATOR, list_text_items(value.items)))))
          ELSE IF value.k = "dict"
          THEN augment_loop_every_value(Tail(items),
                 dict_set(record, search_key(key), JStr(json_dumps(value))))
          ELSE augment_loop_every_value(Tail(items),
                 dict_set(record, search_key(key), JStr(py_str(value))))

\* augment_record(record): the `_search` companion of every list and dict
\* field, the keys taken from a snapshot of the record.
RECURSIVE augment_loop(_, _)
augment_loop(items, record) ==
  IF items = <<>> THEN record
  ELSE LET key == Head(items)[1]
           value == Head(items)[2]
       IN IF value = Null THEN augment_loop(Tail(items), record)
          ELSE IF value.k = "list"
          THEN augment_loop(Tail(items),
                 dict_set(record, search_key(key),
                          JStr(join(LIST_SEPARATOR, list_text_items(value.items)))))
          ELSE IF value.k = "dict"
          THEN augment_loop(Tail(items),
                 dict_set(record, search_key(key), JStr(json_dumps(value))))
          ELSE augment_loop(Tail(items), record)

augment_record(record) == augment_loop(record, record)

F_decision == <<"d", "e", "c", "i", "s", "i", "o", "n">>
F_event_type == <<"e", "v", "e", "n", "t", "_", "t", "y", "p", "e">>
F_session == <<"s", "e", "s", "s", "i", "o", "n">>
F_topic == <<"t", "o", "p", "i", "c">>
F_keywords == <<"k", "e", "y", "w", "o", "r", "d", "s">>
F_authors == <<"a", "u", "t", "h", "o", "r", "s">>

\* facet_fields of _build_facets: the fields and their limits, in dict order.
facet_fields ==
  << <<F_decision, 50>>, <<F_event_type, 50>>, <<F_session, 100>>,
     <<F_topic, 100>>, <<F_keywords, 200>>, <<F_authors, 200>> >>

\* The inner loop over a list value: str(item) is added until the set has
\* reached the limit.
RECURSIVE facet_add_items(_, _, _)
facet_add_items(values, items, limit) ==
  IF items = <<>> \/ Cardinality(values) >= limit THEN values
  ELSE facet_add_items(values \cup {py_str(Head(items))}, Tail(items), limit)

\* What one record adds to the set of a facet field.
facet_add(values, raw_value, limit) ==
  IF raw_value = Null THEN values
  ELSE IF raw_value.k = "list" THEN facet_add_items(values, raw_value.items, limit)
  ELSE IF Cardinality(values) < limit THEN values \cup {py_str(raw_value)}
  ELSE values

\* The set of a facet field after the loop over self.records.
RECURSIVE facet_values(_, _, _, _)
facet_values(records, field, limit, values) ==
  IF records = <<>> THEN values
  ELSE facet_values(Tail(records), field, limit,
                    facet_add(values, dict_get(Head(records), field), limit))

\* PaperStore._build_facets: {field: sorted(values)}, in dict order.
_build_facets(records) ==
  [i \in 1..Len(facet_fields) |->
     <<facet_fields[i][1],
       sorted_strs(facet_values(records, facet_fields[i][1], facet_fields[i][2], {}))>>]

\* PaperStore.__init__ over the opened store file.  record_by_id maps an id
\* to the position in records of the dict it refers to (the same object).
NoStore ==
  [loaded |-> FALSE, records |-> <<>>, record_by_id |-> <<>>, all_ids |-> <<>>,
   columns |-> <<>>, facets |-> <<>>]

PaperStore_init(db) ==
  LET raw_records == fetch_all_records(db)
      records == [i \in 1..Len(raw_records) |-> augment_record(raw_records[i])]
  IN [loaded |-> TRUE,
      records |-> records,
      record_by_id |-> [id \in {dict_get(records[i], F_id).n : i \in 1..Len(records)} |->
                          CHOOSE i \in 1..Len(records) :
                            /\ dict_get(records[i], F_id).n = id
                            /\ \A j \in (i + 1)..Len(records) :
                                 dict_get(records[j], F_id).n # id],
      all_ids |-> [i \in 1..Len(records) |-> dict_get(records[i], F_id).n],
      columns |-> list_columns(db),
      facets |-> _build_facets(records)]


F_random == <<"r", "a", "n", "d", "o", "m">>
T_desc == <<"d", "e", "s", "c">>

\* id_candidates testing `query is not None` in place of `query`.
id_candidates_unless_none(self, db, query) ==
  IF query # Null THEN fts_lookup(db, query.s) ELSE self.all_ids

\* PaperStore.search, lines 162-167: the candidate ids of a query.
id_candidates(self, db, query) ==
  IF truthy(query) THEN fts_lookup(db, query.s) ELSE self.all_ids

\* PaperStore.search, lines 169-171: the candidates that pass the filters, as
\* references into self.records (positions).
matched_records(self, ids, filters_norm) ==
  LET candidate_records == [i \in 1..Len(ids) |-> self.record_by_id[ids[i]]]
  IN SelectSeq(candidate_records, LAMBDA r :
       record_matches_filters(self.records[r], filters_norm))

\* order_records comparing sort_order with "desc" case-insensitively.
order_records_desc_any_case(self, matched, sort_by, sort_order, seed) ==
  IF sort_by = JStr(F_random) THEN sort_random(self.records, matched, seed)
  ELSE IF truthy(sort_by)
  THEN sort_records(self.records, matched, sort_by.s,
                    sort_order # Null /\ lower(sort_order.s) = T_desc)
  ELSE sort_records(self.records, matched, F_name, FALSE)

\* PaperStore.search, lines 173-190: the matched records in result order.
order_records(self, matched, sort_by, sort_order, seed) ==
  IF sort_by = JStr(F_random) THEN sort_random(self.records, matched, seed)
  ELSE IF truthy(sort_by)
  THEN sort_records(self.records, matched, sort_by.s, sort_order = JStr(T_desc))
  ELSE sort_records(self.records, matched, F_name, FALSE)

\* paginate with the total taken after slicing.
paginate_total_of_page(ordered, page, page_size) ==
  LET start == (IF page - 1 > 0 THEN page - 1 ELSE 0) * page_size
      end == start + page_size
      paginated == py_slice(ordered, start, end)
  IN [total |-> Len(paginated), results |-> paginated]

\* paginate without the clamp of page - 1 at 0.
paginate_unclamped(ordered, page, page_size) ==
  LET total == Len(ordered)
      start == (page - 1) * page_size
      end == start + page_size
  IN [total |-> total, results |-> py_slice(ordered, start, end)]

\* PaperStore.search, lines 192-196: (total, paginated).
paginate(ordered, page, page_size) ==
  LET total == Len(ordered)
      start == (IF page - 1 > 0 THEN page - 1 ELSE 0) * page_size
      end == start + page_size
  IN [total |-> total, results |-> py_slice(ordered, start, end)]

\* PaperStore.search: [total, results]; results are references into
\* self.records (positions), in page order.
search(self, db, query, filters, page, page_size, sort_by, sort_order, seed) ==
  LET filters_norm == normalise_filters(filters)
      ids == id_candidates(self, db, query)
  IN IF truthy(query) /\ ids = <<>>
     THEN [total |-> 0, results |-> <<>>]
     ELSE paginate(order_records(self, matched_records(self, ids, filters_norm),
                                 sort_by, sort_order, seed),
                   page, page_size)

\* The list PaperStore.search sorts in place, lines 169-171, taken to be the
\* store's own list of records whenever nothing was filtered out of it.
bind_matched_records_aliasing(self, ids, filters_norm) ==
  LET matched == matched_records(self, ids, filters_norm)
  IN IF matched = [i \in 1..Len(self.records) |-> i]
     THEN [object |-> "self.records", items |-> matched]
     ELSE [object |-> "matched_records", items |-> matched]

\* The list PaperStore.search sorts in place, lines 169-171: the list
\* comprehensions make candidate_records and matched_records new list
\* objects, which hold the store's record dicts.
bind_matched_records(self, ids, filters_norm) ==
  [object |-> "matched_records", items |-> matched_records(self, ids, filters_norm)]

\* self after self.records has been put in the order `ordered` (positions of
\* the former list): record_by_id keeps referring to the same dicts.
reordered(self, ordered) ==
  [self EXCEPT
     !.records = [i \in 1..Len(ordered) |-> self.records[ordered[i]]],
     !.record_by_id = [id \in DOMAIN self.record_by_id |->
                         CHOOSE i \in 1..Len(ordered) :
                           ordered[i] = self.record_by_id[id]]]

\* The store after PaperStore.search.  The call reads self.conn,
\* self.all_ids, self.record_by_id and the record dicts; its one write is the
\* in-place sort of lines 185-190, which reaches the store only if the
\* sorted list is a list of the store.
search_self(self, db, query, filters, sort_by, sort_order, seed) ==
  LET filters_norm == normalise_filters(filters)
      ids == id_candidates(self, db, query)
  IN IF truthy(query) /\ ids = <<>> THEN self
     ELSE LET bound == bind_matched_records(self, ids, filters_norm)
              ordered == order_records(self, bound.items, sort_by, sort_order, seed)
          IN IF bound.object = "self.records" THEN reordered(self, ordered)
             ELSE self

\* PaperStore.get: the record dict of the id (its position), 0 for None.
get(self, paper_id) ==
  IF paper_id \in DOMAIN self.record_by_id THEN self.record_by_id[paper_id] ELSE 0

T_boolean == <<"b", "o", "o", "l", "e", "a", "n">>
T_integer == <<"i", "n", "t", "e", "g", "e", "r">>
T_object == <<"o", "b", "j", "e", "c", "t">>
T_array == <<"a", "r", "r", "a", "y">>
T_string == <<"s", "t", "r", "i", "n", "g">>
T_mixed == <<"m", "i", "x", "e", "d">>

\* detect_type(value), for the values JSON gives without floats.
detect_type(value) ==
  CASE value.k = "bool" -> T_boolean
    [] value.k = "int" -> T_integer
    [] value.k = "dict" -> T_object
    [] value.k = "list" -> T_array
    [] OTHER -> T_string

\* The loop of schema over record.items().
RECURSIVE schema_items(_, _)
schema_items(items, field_types) ==
  IF items = <<>> THEN field_types
  ELSE LET key == Head(items)[1]
           value == Head(items)[2]
       IN IF value = Null THEN schema_items(Tail(items), field_types)
          ELSE IF dict_has(field_types, key)
          THEN IF dict_get(field_types, key) # detect_type(value)
               THEN schema_items(Tail(items), dict_set(field_types, key, T_mixed))
               ELSE schema_items(Tail(items), field_types)
          ELSE schema_items(Tail(items), dict_set(field_types, key, detect_type(value)))

\* The loop of schema over self.records.
RECURSIVE schema_records(_, _)
schema_records(records, field_types) ==
  IF records = <<>> THEN field_types
  ELSE schema_records(Tail(records), schema_items(Head(records), field_types))

\* PaperStore.schema: the fields sorted by name with their types, and the
\* store's facets.
schema(self) ==
  LET field_types == schema_records(self.records, <<>>)
      names == sorted_strs({field_types[i][1] : i \in 1..Len(field_types)})
  IN [fields |-> [i \in 1..Len(names) |->
                    [name |-> names[i], type |-> dict_get(field_types, names[i])]],
      facets |-> self.facets]

\* ------------------------------------------------------------------------
\* backend/app/models.py and backend/app/main.py
\* ------------------------------------------------------------------------
\* SearchRequest.trim_query
trim_query(value) ==
  IF value = Null THEN value
  ELSE IF strip(value.s) = <<>> THEN Null ELSE JStr(strip(value.s))

\* SearchRequest.validate_sort_order: [raised, value].
validate_sort_order(value) ==
  IF value = Null THEN [raised |-> FALSE, value |-> Null]
  ELSE LET candidate == lower(value.s)
       IN IF candidate \notin {<<"a", "s", "c">>, T_desc}
          THEN [raised |-> TRUE, value |-> Null]
          ELSE [raised |-> FALSE, value |-> JStr(candidate)]

\* ------------------------------------------------------------------------
\* Inputs
\* ------------------------------------------------------------------------
\* The documents corpus files are made of.
DocPool == <<
  JDict(<< <<F_id, JInt(3)>>, <<F_name, JStr(<<"b">>)>>,
           <<F_tags, JList(<<JStr(<<"N">>), JStr(<<"v">>)>>)>> >>),
  JDict(<< <<F_id, JStr(<<"1">>)>>, <<F_name, JStr(<<"a">>)>>,
           <<F_tags, JStr(<<"n", "v">>)>> >>),
  JDict(<< <<F_id, JInt(2)>>, <<F_name, JStr(<<"A">>)>>, <<F_tags, Null>>,
           <<search_key(F_tags), JStr(<<"n">>)>> >>),
  JDict(<< <<F_id, JInt(-1)>>, <<F_name, Null>>, <<F_tags, JList(<<>>)>>,
           <<F_meta, JDict(<< <<<<"k">>, JStr(<<"n">>)>> >>)>>,
           <<F_topic, JList(<<JStr(<<"n">>)>>)>> >>),
  JDict(<< <<F_id, JInt(3)>>, <<F_name, JStr(<<"c">>)>>,
           <<F_tags, JList(<<JInt(7), JBool(TRUE)>>)>> >>),
  JDict(<< <<F_name, JStr(<<"a">>)>> >>),
  JDict(<< <<F_id, Null>>, <<F_name, JStr(<<"a">>)>> >>),
  JDict(<< <<F_id, JStr(<<"x">>)>> >>)
>>

\* The subsequences of DocPool with at most n documents, as index sets.
Corpora(n) == {S \in SUBSET (1..Len(DocPool)) : Cardinality(S) <= n}

\* The documents of an index set, in the order of the pool.
RECURSIVE corpus_docs(_)
corpus_docs(S) ==
  IF S = {} THEN <<>>
  ELSE LET m == CHOOSE x \in S : \A y \in S : x <= y
       IN <<DocPool[m]>> \o corpus_docs(S \ {m})

\* The corpus files: the malformed shapes and {"results": [...]}.
Payloads ==
  {JList(<<>>), JDict(<<>>), JDict(<< <<F_results, JStr(<<"x">>)>> >>)}
    \cup {JDict(<< <<F_results, JList(corpus_docs(S))>> >>) : S \in Corpora(MaxDocs)}

\* The store a previous run left at the target location.
PriorStore ==
  main(JDict(<< <<F_results,
                  JList(<<JDict(<< <<F_id, JInt(9)>>, <<F_name, JStr(<<"o">>)>> >>)>>)>> >>),
       NoFile).db

Queries == {Null, JStr(<<>>), JStr(<<"!">>), JStr(<<"N">>)}

FilterMaps ==
  {Null,
   JDict(<< <<F_tags, JStr(<<"n">>)>> >>),
   JDict(<< <<F_meta, JStr(<<" ">>)>> >>),
   JDict(<< <<F_name, JStr(<<"a">>)>>,
            <<F_tags, JList(<<JStr(<<>>), JStr(<<" ", "V">>)>>)>> >>),
   JDict(<< <<F_meta, JStr(<<"K">>)>>, <<F_tags, Null>> >>)}

Pages == 0..MaxPage
PageSizes == 0..MaxPageSize

Seeds == {Null, JStr(<<>>), JStr(<<"0">>), JStr(<<"x">>)}

T_asc == <<"a", "s", "c">>
SortOrders == {JStr(T_asc), JStr(T_desc), JStr(<<"D", "E", "S", "C">>)}

\* (sort_by, sort_order, seed)
SortParams ==
  ({Null, JStr(<<>>)} \X {Null} \X {Null})
    \cup ({JStr(F_random)} \X {Null} \X Seeds)
    \cup ({JStr(F_tags)} \X SortOrders \X {Null})
    \cup ({JStr(F_zz)} \X {JStr(T_asc), JStr(T_desc)} \X {Null})
    \cup ({JStr(F_name)} \X {JStr(T_desc)} \X {Null})

\* The request bodies of POST /papers/search: (query, sort_by, sort_order).
HttpQueries == {Null, JStr(<<" ">>), JStr(<<" ", "N", " ">>)}
HttpSortOrders ==
  {Null, JStr(T_asc), JStr(<<"D", "E", "S", "C">>), JStr(<<"D", "e", "s", "c">>),
   JStr(<<"u", "p">>)}

\* The ids asked of PaperStore.get: of documents of the pool, and of none.
PaperIds == {-1, 2, 5}

NoHttp == [query |-> Null, sort_order |-> Null]
NoCall ==
  [op |-> "none", query |-> Null, filters |-> Null, page |-> 0, page_size |-> 0,
   sort_by |-> Null, sort_order |-> Null, seed |-> Null, paper_id |-> 0]
NoResp == [total |-> 0, results |-> <<>>]

\* ------------------------------------------------------------------------
\* State
\* ------------------------------------------------------------------------
VARIABLES
  payload,   \* the parsed corpus file given to the builder
  prior,     \* the store file as it was before the builder ran
  disk,      \* the store file at the target location
  bpc,       \* where the builder is
  rows,      \* the builder's prepared rows
  store,     \* the server's PaperStore
  spc,       \* where the server is: "idle", "responded", "rejected"
  http,      \* the request body as received, for a call through the endpoint
  call,      \* the PaperStore call being answered
  resp       \* its (total, results)

vars == <<payload, prior, disk, bpc, rows, store, spc, http, call, resp>>
builder_vars == <<payload, prior, disk, bpc, rows>>
server_vars == <<store, spc, http, call, resp>>

\* ------------------------------------------------------------------------
\* The builder: one run of build_index.py main()
\* ------------------------------------------------------------------------
InitBuild ==
  /\ payload \in Payloads
  /\ prior \in {NoFile, PriorStore}
  /\ disk = prior
  /\ bpc = "read_json"
  /\ rows = <<>>
  /\ store = NoStore
  /\ spc = "down"
  /\ http = NoHttp
  /\ call = NoCall
  /\ resp = NoResp

\* main, line 150: read_json; the results are handed to prepare_rows.
ReadJson ==
  /\ bpc = "read_json"
  /\ bpc' = IF read_json(payload).raised THEN "failed" ELSE "prepare_rows"
  /\ UNCHANGED <<payload, prior, disk, rows>>
  /\ UNCHANGED server_vars

\* main, line 151: prepare_rows.
PrepareRows ==
  /\ bpc = "prepare_rows"
  /\ LET r == prepare_rows(read_json(payload).results)
     IN /\ bpc' = IF r.raised THEN "failed" ELSE "unlink"
        /\ rows' = r.rows
  /\ UNCHANGED <<payload, prior, disk>>
  /\ UNCHANGED server_vars

\* main, line 152, and create_database, lines 95-97.
Unlink ==
  /\ bpc = "unlink"
  /\ disk' = IF disk.exists THEN db_unlink(disk) ELSE disk
  /\ bpc' = "create_table"
  /\ UNCHANGED <<payload, prior, rows>>
  /\ UNCHANGED server_vars

\* create_database, lines 99-107.
CreateTable ==
  /\ bpc = "create_table"
  /\ disk' = db_create_table(disk, columns_of(rows))
  /\ bpc' = "insert"
  /\ UNCHANGED <<payload, prior, rows>>
  /\ UNCHANGED server_vars

\* create_database, lines 109-113; an IntegrityError leaves through `finally`.
InsertRows ==
  /\ bpc = "insert"
  /\ LET r == executemany_insert(disk, <<>>, rows)
     IN /\ disk' = r.db
        /\ bpc' = IF r.raised THEN "failed" ELSE "create_fts"
  /\ UNCHANGED <<payload, prior, rows>>
  /\ UNCHANGED server_vars

\* create_database, lines 115-124.
CreateFts ==
  /\ bpc = "create_fts"
  /\ disk' = db_create_fts(disk)
  /\ bpc' = "populate_fts"
  /\ UNCHANGED <<payload, prior, rows>>
  /\ UNCHANGED server_vars

\* create_database, lines 125-137.
PopulateFts ==
  /\ bpc = "populate_fts"
  /\ disk' = db_populate_fts(disk)
  /\ bpc' = "done"
  /\ UNCHANGED <<payload, prior, rows>>
  /\ UNCHANGED server_vars

NextBuild ==
  \/ ReadJson
  \/ PrepareRows
  \/ Unlink
  \/ CreateTable
  \/ InsertRows
  \/ CreateFts
  \/ PopulateFts

SpecBuild == InitBuild /\ [][NextBuild]_vars

\* ------------------------------------------------------------------------
\* The server: a PaperStore over a built store file, answering calls
\* ------------------------------------------------------------------------
\* The state after PaperStore.__init__ on the store main() built from a
\* corpus file.
Init ==
  /\ payload \in Payloads
  /\ ~main(payload, NoFile).raised
  /\ prior = NoFile
  /\ disk = main(payload, NoFile).db
  /\ bpc = "done"
  /\ rows = prepare_rows(read_json(payload).results).rows
  /\ store = PaperStore_init(disk)
  /\ spc = "idle"
  /\ http = NoHttp
  /\ call = NoCall
  /\ resp = NoResp

\* PaperStore.search(query, filters, page, page_size, sort_by, sort_order, seed)
Search ==
  /\ spc = "idle"
  /\ \E query \in Queries, filters \in FilterMaps, page \in Pages,
        page_size \in PageSizes, sort \in SortParams :
       /\ call' = [op |-> "search", query |-> query, filters |-> filters,
                   page |-> page, page_size |-> page_size, sort_by |-> sort[1],
                   sort_order |-> sort[2], seed |-> sort[3], paper_id |-> 0]
       /\ resp' = search(store, disk, query, filters, page, page_size,
                         sort[1], sort[2], sort[3])
       /\ store' = search_self(store, disk, query, filters, sort[1], sort[2], sort[3])
  /\ spc' = "responded"
  /\ UNCHANGED http
  /\ UNCHANGED builder_vars

\* POST /papers/search: SearchRequest validation, then search_papers, which
\* calls store.search without a seed.  A rejected body never reaches the store.
SearchPapers ==
  /\ spc = "idle"
  /\ \E query \in HttpQueries, page \in 1..MaxPage, page_size \in 1..MaxPageSize,
        sort_by \in {Null, JStr(F_tags)}, sort_order \in HttpSortOrders :
       LET order == validate_sort_order(sort_order)
       IN /\ http' = [query |-> query, sort_order |-> sort_order]
          /\ IF order.raised
             THEN /\ spc' = "rejected"
                  /\ UNCHANGED <<call, resp, store>>
             ELSE /\ spc' = "responded"
                  /\ call' = [op |-> "search", query |-> trim_query(query),
                              filters |-> Null, page |-> page,
                              page_size |-> page_size, sort_by |-> sort_by,
                              sort_order |-> order.value, seed |-> Null,
                              paper_id |-> 0]
                  /\ resp' = search(store, disk, trim_query(query), Null, page,
                                    page_size, sort_by, order.value, Null)
                  /\ store' = search_self(store, disk, trim_query(query), Null,
                                           sort_by, order.value, Null)
  /\ UNCHANGED builder_vars

\* PaperStore.get(paper_id), as get_paper calls it: the dict of the store or
\* None.
Get ==
  /\ spc = "idle"
  /\ \E paper_id \in PaperIds :
       /\ call' = [NoCall EXCEPT !.op = "get", !.paper_id = paper_id]
       /\ resp' = [NoResp EXCEPT !.results = <<get(store, paper_id)>>]
  /\ spc' = "got"
  /\ UNCHANGED <<store, http>>
  /\ UNCHANGED builder_vars

\* PaperStore.schema(), as the schema endpoint calls it.
Schema ==
  /\ spc = "idle"
  /\ call' = [NoCall EXCEPT !.op = "schema"]
  /\ resp' = [NoResp EXCEPT !.results = <<schema(store)>>]
  /\ spc' = "described"
  /\ UNCHANGED <<store, http>>
  /\ UNCHANGED builder_vars

\* The caller takes the response.
Return ==
  /\ spc \in {"responded", "rejected", "got", "described"}
  /\ spc' = "idle"
  /\ http' = NoHttp
  /\ call' = NoCall
  /\ resp' = NoResp
  /\ UNCHANGED store
  /\ UNCHANGED builder_vars

Next ==
  \/ Search
  \/ SearchPapers
  \/ Get
  \/ Schema
  \/ Return

Spec == Init /\ [][Next]_vars

\* ------------------------------------------------------------------------
\* Vocabulary of the properties
\* ------------------------------------------------------------------------
\* A PaperStore.search call has been answered.
Answered == spc = "responded"

RecOf(r) == store.records[r]
IdOf(r) == dict_get(RecOf(r), F_id).n
AllRefs == 1..Len(store.records)

\* The tokens the inverted index holds for a document: those of the
\* search_blob of its row.
BlobTokens(r) ==
  LET row == CHOOSE x \in {disk.rows[i] : i \in 1..Len(disk.rows)} :
               dict_get(x, F_id).n = IdOf(r)
      blob == dict_get(row, F_search_blob)
      runs == word_runs(blob.s, <<>>)
  IN {lower(runs[i]) : i \in 1..Len(runs)}

\* The query is missing or empty: no full-text prefilter.
NoQuery(query) == query = Null \/ query = JStr(<<>>)

\* The tokens of a query: its maximal runs of alphanumerics, lowercased.
QueryTokens(query) ==
  LET runs == word_runs(query.s, <<>>)
  IN {lower(runs[i]) : i \in 1..Len(runs)}

\* Document r passes the full-text prefilter of the query: there is none, or
\* the query has tokens and each is a prefix of a token of the document.
PassesPrefilter(r, query) ==
  \/ NoQuery(query)
  \/ /\ QueryTokens(query) # {}
     /\ \A t \in QueryTokens(query) : \E tok \in BlobTokens(r) : is_prefix(t, tok)

\* The normalized values of one raw filter value: trimmed, non-empty.
NormValues(raw) ==
  LET texts == IF raw = Null THEN {}
               ELSE IF raw.k = "str" THEN {raw.s}
               ELSE IF raw.k = "list"
               THEN {py_str(raw.items[i]) : i \in 1..Len(raw.items)}
               ELSE {py_str(raw)}
  IN {strip(t) : t \in texts} \ {<<>>}

\* The fields of a raw filter map.
FilterFields(filters) ==
  IF filters = Null THEN {} ELSE {filters.pairs[i][1] : i \in 1..Len(filters.pairs)}

\* The value filtering reads for a field: the field, or its `_search`
\* companion when the field is null or absent.
Retrievable(record, field) ==
  IF dict_get(record, field) # Null THEN dict_get(record, field)
  ELSE dict_get(record, search_key(field))

\* The lowercased tokens of a value: one per list element, one for a scalar
\* or an object.
ValueTokens(value) ==
  IF value.k = "list" THEN {lower(py_str(value.items[i])) : i \in 1..Len(value.items)}
  ELSE {lower(py_str(value))}

\* The document is retained by the raw filter map.
Retained(record, filters) ==
  \A field \in FilterFields(filters) :
    LET values == NormValues(dict_get(filters.pairs, field))
    IN values # {} =>
         /\ Retrievable(record, field) # Null
         /\ \E v \in values : \E t \in ValueTokens(Retrievable(record, field)) :
              is_substring(lower(v), t)

\* The documents that pass the prefilter and the filters of the call.
Matching == {r \in AllRefs : PassesPrefilter(r, call.query) /\ Retained(RecOf(r), call.filters)}

\* First position (0-based) of the requested page in the ordered sequence.
PageStart == (IF call.page - 1 > 0 THEN call.page - 1 ELSE 0) * call.page_size

\* Number of elements of [PageStart, PageStart + page_size) below n.
PageLen(n) ==
  LET left == n - PageStart
  IN IF left <= 0 THEN 0
     ELSE IF left < call.page_size THEN left ELSE call.page_size

\* The answer of the same call for another page and page size.
SamePage(page, page_size) ==
  search(store, disk, call.query, call.filters, page, page_size,
         call.sort_by, call.sort_order, call.seed)

\* The whole ordered sequence of the call: its answer for one page that
\* holds every document.
FullListing == SamePage(1, Len(store.records)).results

\* ------------------------------------------------------------------------
\* C1: whatever the page and the page size, the total of an answer is the
\* number of documents that pass the full-text prefilter and every filter of
\* the call; and when (page-1)*page_size >= total the result list is empty
\* (the total being that same number).
\* ------------------------------------------------------------------------
C1_TotalIsFilteredCount ==
  Answered =>
    /\ resp.total = Cardinality(Matching)
    /\ (call.page - 1) * call.page_size >= resp.total => resp.results = <<>>

\* A page beyond the last one of a non-empty, prefiltered and filtered result.
C1_Witness ==
  /\ Answered
  /\ ~NoQuery(call.query)
  /\ FilterFields(call.filters) # {}
  /\ resp.total >= 1
  /\ resp.total < Len(store.records)
  /\ call.page_size >= 1
  /\ (call.page - 1) * call.page_size >= resp.total
  /\ resp.results = <<>>

\* ------------------------------------------------------------------------
\* C2: an answer holds exactly the elements at positions
\* [start, start+page_size) of the whole ordered sequence of the call, with
\* start = max(page-1, 0) * page_size; so a page <= 1 is the first page, and
\* for page_size >= 1 the pages 1..ceil(total/page_size) one after the other
\* are the whole sequence, each document once.
\* ------------------------------------------------------------------------
RECURSIVE PagesFrom(_, _)
PagesFrom(p, last) ==
  IF p > last THEN <<>>
  ELSE SamePage(p, call.page_size).results \o PagesFrom(p + 1, last)

C2_PageIsSlice ==
  Answered =>
    /\ resp.results = [k \in 1..PageLen(Len(FullListing)) |-> FullListing[PageStart + k]]
    /\ call.page <= 1 => resp.results = SamePage(1, call.page_size).results
    /\ call.page_size >= 1 =>
         LET pages == PagesFrom(1, (resp.total + call.page_size - 1) \div call.page_size)
         IN /\ pages = FullListing
            /\ \A i, j \in 1..Len(pages) : i # j => pages[i] # pages[j]
            /\ {pages[i] : i \in 1..Len(pages)} = Matching

\* The middle page of three one-document pages.
C2_Witness ==
  /\ Answered
  /\ call.page = 2
  /\ call.page_size = 1
  /\ resp.total = 3
  /\ Len(resp.results) = 1
  /\ resp.results[1] = FullListing[2]

\* ------------------------------------------------------------------------
\* C3: with sort_by = "random" the order of the matched documents is the
\* ascending order of the digest key of (seed, id), a missing or empty seed
\* standing for "0": the document at position k of the page is the one with
\* exactly start+k-1 matched documents of smaller key.  The order is thus a
\* function of the seed and the ids alone, the same in every call, and pages
\* of separate calls with one seed neither overlap nor skip a document.
\* ------------------------------------------------------------------------
SeedText == IF call.seed = Null \/ call.seed = JStr(<<>>) THEN <<"0">> ELSE call.seed.s

KeyRank(r) ==
  Cardinality({q \in Matching : sha256_key(SeedText, IdOf(q)) < sha256_key(SeedText, IdOf(r))})

C3_RandomOrderBySeedAndId ==
  (Answered /\ call.sort_by = JStr(F_random)) =>
    /\ Len(resp.results) = PageLen(Cardinality(Matching))
    /\ \A k \in 1..Len(resp.results) :
         /\ resp.results[k] \in Matching
         /\ KeyRank(resp.results[k]) = PageStart + k - 1

\* The second one-document page of a seedless random order over three
\* documents, which is not their id order.
C3_Witness ==
  /\ Answered
  /\ call.sort_by = JStr(F_random)
  /\ call.seed = Null
  /\ call.page = 2
  /\ call.page_size = 1
  /\ resp.total = 3
  /\ Len(resp.results) = 1
  /\ Cardinality({q \in Matching : IdOf(q) < IdOf(resp.results[1])}) # 1

\* ------------------------------------------------------------------------
\* C4: with no query, no filters and sort_by omitted or empty, the results
\* are in ascending order of the lowercased text of `name` (a null or absent
\* name counting as the empty text, so first), documents of equal lowercased
\* name in id order.
\* ------------------------------------------------------------------------
NameKey(r) ==
  LET name == dict_get(RecOf(r), F_name)
  IN IF name = Null THEN <<>> ELSE lower(py_str(name))

NameRank(r) ==
  Cardinality({q \in AllRefs :
    \/ str_less(NameKey(q), NameKey(r))
    \/ NameKey(q) = NameKey(r) /\ IdOf(q) < IdOf(r)})

DefaultCall ==
  /\ Answered
  /\ NoQuery(call.query)
  /\ call.filters = Null
  /\ call.sort_by \in {Null, JStr(<<>>)}

C5_Stated ==
  (Answered /\ call.query # Null /\ QueryTokens(call.query) = {}) =>
    resp.total = Cardinality({r \in AllRefs : Retained(RecOf(r), call.filters)})

\* C5 amended: an empty query string gives every document as candidate, in
\* id ascending order, before the filters; a non-empty query without tokens
\* (only punctuation) gives no candidate: total 0 and no results.
C5_EmptyQueryAllPunctuationNone ==
  Answered =>
    /\ call.query = JStr(<<>>) =>
         /\ resp.total = Cardinality({r \in AllRefs : Retained(RecOf(r), call.filters)})
         /\ call.sort_by = JStr(F_zz) /\ call.sort_order # JStr(T_desc) =>
              \A k \in 1..(Len(resp.results) - 1) :
                IdOf(resp.results[k]) < IdOf(resp.results[k + 1])
    /\ (call.query # Null /\ call.query # JStr(<<>>) /\ QueryTokens(call.query) = {}) =>
         /\ resp.total = 0
         /\ resp.results = <<>>

\* A query of punctuation alone on a store of three documents, answered
\* with nothing.
C5_Witness ==
  /\ Answered
  /\ Len(store.records) = 3
  /\ call.filters = Null
  /\ call.query = JStr(<<"!">>)
  /\ resp.total = 0
  /\ resp.results = <<>>

\* ------------------------------------------------------------------------
\* C6: a candidate is retained iff for every filter field with a normalized
\* value the document's value for the field (its `_search` companion when the
\* field is null or absent) is non-null and some filter value, lowercased, is
\* a substring of some lowercased token of that value.
\* ------------------------------------------------------------------------
C6_RetainedIffEveryFieldMatches ==
  (Answered /\ NoQuery(call.query)) =>
    /\ \A k \in 1..Len(resp.results) : Retained(RecOf(resp.results[k]), call.filters)
    /\ resp.total = Cardinality({r \in AllRefs : Retained(RecOf(r), call.filters)})
    /\ \A r \in AllRefs :
         Retained(RecOf(r), call.filters)
           <=> record_matches_filters(RecOf(r), normalise_filters(call.filters))

\* A filter that retains a document through its companion field and
\* excludes another document.
C6_Witness ==
  /\ Answered
  /\ NoQuery(call.query)
  /\ FilterFields(call.filters) = {F_tags}
  /\ resp.total < Len(store.records)
  /\ \E k \in 1..Len(resp.results) :
       /\ dict_get(RecOf(resp.results[k]), F_tags) = Null
       /\ dict_get(RecOf(resp.results[k]), search_key(F_tags)) # Null

\* ------------------------------------------------------------------------
\* C7: a filter field whose value is null, or whose values are all empty
\* after trimming, constrains nothing: the answer is the answer of the same
\* call with the field removed from the filters.
\* ------------------------------------------------------------------------
WithoutField(filters, field) ==
  JDict(SelectSeq(filters.pairs, LAMBDA pair : pair[1] # field))

C7_BlankFilterFieldIsDropped ==
  Answered =>
    \A field \in FilterFields(call.filters) :
      NormValues(dict_get(call.filters.pairs, field)) = {} =>
        resp = search(store, disk, call.query, WithoutField(call.filters, field),
                      call.page, call.page_size, call.sort_by, call.sort_order,
                      call.seed)

\* A blank filter on a field that a returned document does not have.
C7_Witness ==
  /\ Answered
  /\ \E field \in FilterFields(call.filters) :
       /\ NormValues(dict_get(call.filters.pairs, field)) = {}
       /\ \E k \in 1..Len(resp.results) :
            ~dict_has(RecOf(resp.results[k]), field)

\* ------------------------------------------------------------------------
\* C8 as stated: when sort_by names a field the order is descending iff
\* sort_order is "desc" compared case-insensitively, ascending otherwise.
\* ------------------------------------------------------------------------
NamedSort == Answered /\ truthy(call.sort_by) /\ call.sort_by # JStr(F_random)

NonIncreasing ==
  \A k \in 1..(Len(resp.results) - 1) :
    ~str_less(sort_key(RecOf(resp.results[k]), call.sort_by.s),
              sort_key(RecOf(resp.results[k + 1]), call.sort_by.s))

NonDecreasing ==
  \A k \in 1..(Len(resp.results) - 1) :
    ~str_less(sort_key(RecOf(resp.results[k + 1]), call.sort_by.s),
              sort_key(RecOf(resp.results[k]), call.sort_by.s))

C8_Stated ==
  NamedSort =>
    IF call.sort_order # Null /\ lower(call.sort_order.s) = T_desc
    THEN NonIncreasing ELSE NonDecreasing

\* C8 amended: PaperStore.search sorts descending iff sort_order is exactly
\* "desc", ascending for every other value ("DESC" and "Desc" included); a
\* request through the search endpoint has its sort_order lowercased by
\* SearchRequest before the call, so there "DESC" does sort descending.
C8_DescendingIffExactlyDesc ==
  NamedSort =>
    /\ IF call.sort_order = JStr(T_desc) THEN NonIncreasing ELSE NonDecreasing
    /\ (http.sort_order # Null /\ lower(http.sort_order.s) = T_desc) =>
         call.sort_order = JStr(T_desc)

\* "DESC" given to PaperStore.search itself: two documents in strictly
\* ascending order of their keys.
C8_Witness ==
  /\ NamedSort
  /\ http = NoHttp
  /\ call.sort_order = JStr(<<"D", "E", "S", "C">>)
  /\ Len(resp.results) = 2
  /\ str_less(sort_key(RecOf(resp.results[1]), call.sort_by.s),
              sort_key(RecOf(resp.results[2]), call.sort_by.s))

\* ------------------------------------------------------------------------
\* C9: a build whose corpus file has a malformed top-level shape, or holds a
\* document whose id is missing or null, fails before create_database is
\* entered: the builder never gets past prepare_rows and the store file is
\* the one that was there before.
\* ------------------------------------------------------------------------
Malformed(file) ==
  \/ file.k # "dict"
  \/ ~dict_has(file.pairs, F_results)
  \/ dict_get(file.pairs, F_results).k # "list"

HasDocumentWithoutId(file) ==
  /\ ~Malformed(file)
  /\ \E i \in 1..Len(dict_get(file.pairs, F_results).items) :
       dict_get(dict_get(file.pairs, F_results).items[i].pairs, F_id) = Null

C9_BadInputFailsBeforeAnyWrite ==
  (Malformed(payload) \/ HasDocumentWithoutId(payload)) =>
    /\ bpc \in {"read_json", "prepare_rows", "failed"}
    /\ disk = prior

\* A failed build of a corpus with an id-less document, the previous store
\* still in place.
C9_Witness ==
  /\ HasDocumentWithoutId(payload)
  /\ Len(dict_get(payload.pairs, F_results).items) >= 2
  /\ bpc = "failed"
  /\ prior = PriorStore
  /\ disk = PriorStore

\* ------------------------------------------------------------------------
\* C10 as stated: the builder replaces the store atomically and only on
\* success: the store file is always the complete previous store or the
\* complete new one, and after a failed build it is the previous one.
\* ------------------------------------------------------------------------
C10_Stated ==
  /\ disk = prior \/ (~main(payload, NoFile).raised /\ disk = main(payload, NoFile).db)
  /\ bpc = "failed" => disk = prior

\* ------------------------------------------------------------------------
\* C11 as stated: a document whose id is absent, null, not convertible to an
\* integer or converts to a negative integer makes the build fail without
\* writing any row (the store file stays as it was), and every row ever
\* persisted by the build has a non-negative id.
\* ------------------------------------------------------------------------
Documents(file) == dict_get(file.pairs, F_results).items

IdIsRejectable(doc) ==
  LET value == dict_get(doc.pairs, F_id)
  IN \/ value = Null
     \/ ~py_int(value).ok
     \/ py_int(value).n < 0

C11_Stated ==
  /\ (~Malformed(payload)
        /\ \E i \in 1..Len(Documents(payload)) : IdIsRejectable(Documents(payload)[i])) =>
       /\ bpc \in {"read_json", "prepare_rows", "failed"}
       /\ disk = prior
  /\ \A i \in 1..Len(disk.rows) : dict_get(disk.rows[i], F_id).n >= 0

\* ------------------------------------------------------------------------
\* C12: the named-field sort is stable in both directions.  In the whole
\* ordered sequence of a call that sorts by a field, two documents of equal
\* sort key stand in the order the candidates had; sort_records applied to
\* the matched documents in any prior order, ascending or descending, gives
\* a rearrangement of them in which documents of equal key keep that prior
\* order; and when no document has the field, the result order is the
\* candidate order, whatever the sort_order.
\* ------------------------------------------------------------------------
\* The matched documents of the call in candidate order, before any sort.
Candidates ==
  matched_records(store, id_candidates(store, disk, call.query),
                  normalise_filters(call.filters))

PositionIn(seq, x) == CHOOSE i \in 1..Len(seq) : seq[i] = x

\* The rearrangements of a sequence without repeated elements.
Rearrangements(seq) ==
  {[i \in 1..Len(seq) |-> seq[f[i]]] : f \in Permutations(1..Len(seq))}

\* after holds the elements of before, those of equal key in the order they
\* have in before.
KeepsTies(before, after, field) ==
  /\ Len(after) = Len(before)
  /\ {after[i] : i \in 1..Len(after)} = {before[i] : i \in 1..Len(before)}
  /\ \A i, j \in 1..Len(after) :
       (i < j /\ sort_key(RecOf(after[i]), field) = sort_key(RecOf(after[j]), field)) =>
         PositionIn(before, after[i]) < PositionIn(before, after[j])

C12_SortIsStable ==
  NamedSort =>
    /\ KeepsTies(Candidates, FullListing, call.sort_by.s)
    /\ \A descending \in BOOLEAN :
         \A before \in Rearrangements(Candidates) :
           KeepsTies(before,
                     sort_records(store.records, before, call.sort_by.s, descending),
                     call.sort_by.s)
    /\ (\A r \in AllRefs : ~dict_has(RecOf(r), call.sort_by.s)) =>
         /\ FullListing = Candidates
         /\ resp.results =
              [k \in 1..PageLen(Len(Candidates)) |-> Candidates[PageStart + k]]

\* A descending sort by name of three documents, two of which have names
\* that differ only in case: they come first, in candidate order.
C12_Witness ==
  /\ NamedSort
  /\ call.sort_by = JStr(F_name)
  /\ call.sort_order = JStr(T_desc)
  /\ resp.total = 3
  /\ Len(resp.results) = 2
  /\ dict_get(RecOf(resp.results[1]), F_name) # dict_get(RecOf(resp.results[2]), F_name)
  /\ sort_key(RecOf(resp.results[1]), F_name) = sort_key(RecOf(resp.results[2]), F_name)
  /\ PositionIn(Candidates, resp.results[1]) < PositionIn(Candidates, resp.results[2])

\* ------------------------------------------------------------------------
\* C13 as stated: for every document of the store and every field of it
\* (other than id, and leaving aside a field whose `_search` name is itself a
\* key of the document), the row normalise_record built holds a
\* `<field>_search` entry iff the loaded document augment_record produced
\* holds one, that is exactly when the field's value is a list or an object,
\* and the two entries hold the same text.
\* ------------------------------------------------------------------------
\* The document of row i as the corpus file gave it.
StoredDocument(i) == json_loads(dict_get(disk.rows[i], F_raw_json).s).pairs

\* The fields of a document whose companion name is free.
CompanionFields(doc) ==
  {f \in {doc[j][1] : j \in 1..Len(doc)} : f # F_id /\ ~dict_has(doc, search_key(f))}

C13_Stated ==
  store.loaded =>
    \A i \in 1..Len(store.records) :
      \A f \in CompanionFields(StoredDocument(i)) :
        LET built == dict_get(disk.rows[i], search_key(f))
            loaded == dict_get(store.records[i], search_key(f))
        IN /\ built # Null <=> dict_has(store.records[i], search_key(f))
           /\ dict_has(store.records[i], search_key(f)) <=>
                dict_get(StoredDocument(i), f).k \in {"list", "dict"}
           /\ built # Null => built = loaded

\* ------------------------------------------------------------------------
\* C14: re-augmentation is idempotent.  Every document of the loaded store
\* is raw_json deserialized, id injected, augmented once; augmenting it
\* again, any further number of times, gives the same field map (same keys
\* in the same order, same values).
\* ------------------------------------------------------------------------
RECURSIVE augment_times(_, _)
augment_times(record, n) ==
  IF n = 0 THEN record ELSE augment_times(augment_record(record), n - 1)

C14_AugmentIsIdempotent ==
  store.loaded =>
    \A i \in 1..Len(store.records) :
      LET deserialized == fetch_all_records(disk)[i]
      IN /\ store.records[i] = augment_record(deserialized)
         /\ augment_record(store.records[i]) = store.records[i]
         /\ \A n \in 1..3 : augment_times(deserialized, n) = store.records[i]

\* A loaded store with a document that got the companion of a list and a
\* document that got the companion of an object.
C14_Witness ==
  /\ store.loaded
  /\ \E i \in 1..Len(store.records) :
       /\ dict_get(store.records[i], F_tags).k = "list"
       /\ dict_get(store.records[i], search_key(F_tags)) = JStr(<<"N", " ", "|", " ", "v">>)
       /\ ~dict_has(fetch_all_records(disk)[i], search_key(F_tags))
  /\ \E i \in 1..Len(store.records) :
       /\ dict_get(store.records[i], F_meta).k = "dict"
       /\ dict_get(store.records[i], search_key(F_meta)).k = "str"
       /\ ~dict_has(fetch_all_records(disk)[i], search_key(F_meta))

====
